---------------------------- MODULE Spec2Model ----------------------------
(***************************************************************************)
(* TalentScout hiring assistant: the conversation manager                  *)
(* (src/conversation_manager.py), the session orchestrator (src/app.py)    *)
(* and the persistence collaborator (src/data_handler.py).                 *)
(*                                                                         *)
(* Strings.  A Python string is modelled as the sequence of its            *)
(* whitespace-delimited tokens (what str.split() returns); the tokens are  *)
(* separated by exactly one space.  A model reply is a sequence of lines,  *)
(* each a token sequence, joined by one "\n".  The per-character methods   *)
(* and regular expressions of the source (lower, title, isalpha, isupper,  *)
(* re.search ...) are tabulated token by token over the vocabulary of the  *)
(* bounded inputs; the tables hold what Python returns for each token.     *)
(* Python's None is the empty token sequence: no assignment in the source  *)
(* ever stores an empty string, so << >> is free to stand for None.        *)
(***************************************************************************)
EXTENDS Naturals, Sequences, FiniteSets, TLC

VARIABLES
    api_key,            \* os.environ["GROQ_API_KEY"]
    api_key_set,        \* st.session_state.api_key_set
    greeted,            \* st.session_state.greeted
    messages,           \* st.session_state.messages
    conversation_ended, \* st.session_state.conversation_ended
    stage,              \* manager.stage
    candidate_info,     \* manager.candidate_info
    questions,          \* manager.questions
    answered_count,     \* manager.answered_count
    api_requests,       \* the message lists sent to client.chat.completions.create
    save_calls,         \* the (candidate_info, messages) arguments of save_session
    written,            \* the JSON documents this session's DataHandler wrote
    last_reply          \* what the latest handle_user_input returned or raised

manager_vars == <<stage, candidate_info, questions, answered_count>>
session_vars == <<api_key, api_key_set, greeted, messages, conversation_ended>>
io_vars == <<api_requests, save_calls, written, last_reply>>
vars == <<api_key, api_key_set, greeted, messages, conversation_ended,
          stage, candidate_info, questions, answered_count,
          api_requests, save_calls, written, last_reply>>

-----------------------------------------------------------------------------
(* Bounds *)

\* Turns one session takes through main() before the model stops feeding it.
MaxTurns == 2

-----------------------------------------------------------------------------
(* Program constants *)

None == << >>

STAGES == <<"greeting", "gathering_info", "tech_stack", "technical_questions", "closing">>

REQUIRED_FIELDS ==
    <<"full_name", "email", "phone", "years_experience", "desired_position", "location">>

\* handle_user_input's local set (the class attribute of the same name, with
\* "done" added, is read nowhere)
EXIT_KEYWORDS == {"exit", "quit", "bye", "goodbye", "end", "stop"}

MANAGER_EXIT_KEYWORDS == {"exit", "quit", "bye", "goodbye", "end", "stop", "done"}

GREETING_KEYWORDS == {"hello", "hi", "hey", "help"}

TECH_KEYWORDS ==
    {"python", "javascript", "typescript", "java", "c++", "c#", "go", "rust", "ruby",
     "php", "swift", "kotlin", "scala", "r", "matlab", "react", "angular", "vue",
     "next.js", "nuxt", "svelte", "django", "flask", "fastapi", "spring", "express",
     "nest.js", "node.js", "nodejs", "deno", "postgresql", "mysql", "sqlite",
     "mongodb", "redis", "cassandra", "elasticsearch", "firebase", "supabase",
     "docker", "kubernetes", "terraform", "ansible", "aws", "gcp", "azure", "heroku",
     "vercel", "git", "github", "gitlab", "jira", "linux", "machine learning", "ml",
     "deep learning", "tensorflow", "pytorch", "pandas", "numpy", "scikit-learn",
     "spark", "hadoop", "graphql", "rest", "grpc", "kafka", "rabbitmq"}

transition_signals ==
    {<<"technical", "question">>, <<"few", "questions">>,
     <<"based", "on", "your", "stack">>, <<"assess", "your">>,
     <<"let's", "test">>, <<"now", "ask">>}

\* {7,15} of the phone pattern, >= 7 digits, len(q.strip()) > 10, .{10,},
\* questions[:5], len(user_message) > 10, <= 5 and 1..4 words, len(tech) > 3
PHONE_MIN_CHARS == 7
PHONE_MAX_CHARS == 15
PHONE_MIN_DIGITS == 7
QUESTION_MIN_CHARS == 10
LIST_ITEM_MIN_CHARS == 10
MAX_QUESTIONS == 5
ANSWER_MIN_CHARS == 10
GREETING_MAX_WORDS == 5
NAME_MAX_WORDS == 4
ACRONYM_MAX_CHARS == 3

-----------------------------------------------------------------------------
(* The bounded inputs *)

U_bye == <<"bye">>
U_byeAll == <<"Bye", "b@y.io", "555-0000", "7", "yrs", "python">>
U_done == <<"done">>
U_weekend == <<"weekend">>
U_hello == <<"hello">>
U_name == <<"Jane", "Doe">>
U_contact == <<"a@x.io", "5551234567", "5", "years">>
U_contact2 == <<"b@y.io", "555-0000", "7", "yrs">>
U_scenario ==
    <<"I", "have", "5", "years", "of", "experience", "with", "Python", "and", "Docker">>
U_tech == <<"python", "aws">>
U_ok == <<"ok">>
U_email == <<"a@x.io">>

\* what the user types into st.chat_input
Utterances ==
    {U_bye, U_byeAll, U_done, U_weekend, U_hello, U_name, U_contact, U_contact2,
     U_scenario, U_tech, U_ok, U_email}

R_plain ==
    <<<<"Thanks!", "What", "is", "your", "email?">>>>
R_signal ==
    <<<<"Great,", "I", "will", "now", "ask", "a", "few", "questions.">>>>
R_two ==
    <<<<"Question", "1:", "What", "is", "a", "closure?">>,
      <<"Question", "2:", "Explain", "REST.">>>>
R_six ==
    <<<<"Question", "1:", "Explain", "REST.">>,
      <<"Question", "2:", "Explain", "REST.">>,
      <<"Question", "3:", "Explain", "REST.">>,
      <<"Question", "4:", "Explain", "REST.">>,
      <<"Question", "5:", "Explain", "REST.">>,
      <<"Question", "6:", "Explain", "REST.">>>>
R_numbered ==
    <<<<"1.", "What", "is", "a", "closure?">>,
      <<"2)", "Explain", "REST.">>>>
R_short ==
    <<<<"Question", "1:", "Why?">>>>

\* response.choices[0].message.content of a completion that succeeds
ModelTexts == {R_plain, R_signal, R_two, R_six, R_numbered, R_short}

\* The texts a whole session is fed.  A session through main() never leaves
\* gathering_info (StageStuckBeforeTechStack below), and before tech_stack
\* process_ai_response does not read the reply.
SessionModelTexts == {R_plain}

E_auth == <<"Error", "code:", "401", "invalid_api_key">>
E_rate == <<"Error", "code:", "429", "rate_limit_exceeded">>
E_generic == <<"Connection", "error.">>
E_rate_used == <<"Error", "code:", "429", "rate_limit_exceeded", "Used", "99401">>

\* str(e) of an exception the completion call raises (one line each)
ErrorTexts == {<<E_auth>>, <<E_rate>>, <<E_generic>>, <<E_rate_used>>}

\* what client.chat.completions.create does: return a text or raise
Completions ==
    [kind : {"ok"}, text : SessionModelTexts] \cup [kind : {"raise"}, text : ErrorTexts]

-----------------------------------------------------------------------------
(* Python's string methods and the source's regular expressions, per token *)

\* str.lower(): the tokens it changes
LOWERED ==
    ("Bye" :> "bye") @@ ("Jane" :> "jane") @@ ("Doe" :> "doe") @@ ("I" :> "i") @@
    ("Python" :> "python") @@ ("Docker" :> "docker") @@ ("AWS" :> "aws") @@
    ("Thanks!" :> "thanks!") @@
    ("What" :> "what") @@ ("Great," :> "great,") @@ ("Question" :> "question") @@
    ("Explain" :> "explain") @@ ("REST." :> "rest.") @@ ("Why?" :> "why?") @@
    ("Error" :> "error") @@ ("Connection" :> "connection") @@
    ("Invalid" :> "invalid") @@ ("API" :> "api") @@ ("Please" :> "please") @@
    ("Groq" :> "groq") @@ ("Rate" :> "rate") @@ ("Error:" :> "error:")

\* str.title(): the tokens it changes
TITLED ==
    ("bye" :> "Bye") @@ ("b@y.io" :> "B@Y.Io") @@ ("yrs" :> "Yrs") @@
    ("python" :> "Python") @@ ("done" :> "Done") @@ ("weekend" :> "Weekend") @@
    ("hello" :> "Hello") @@ ("a@x.io" :> "A@X.Io") @@ ("years" :> "Years") @@
    ("have" :> "Have") @@ ("of" :> "Of") @@ ("experience" :> "Experience") @@
    ("with" :> "With") @@ ("and" :> "And") @@ ("aws" :> "Aws") @@ ("ok" :> "Ok") @@
    ("docker" :> "Docker")

\* str.upper() of the keywords of at most three characters an utterance can hold
UPPERED == ("aws" :> "AWS")

\* w.isalpha()
ALPHA_TOKENS ==
    {"bye", "Bye", "yrs", "python", "done", "weekend", "hello", "Jane", "Doe",
     "years", "I", "have", "of", "experience", "with", "Python", "and", "Docker",
     "aws", "ok"}

\* w[0].isupper()
UPPER_FIRST_TOKENS == {"Bye", "Jane", "Doe", "I", "Python", "Docker"}

\* re.search(r"[a-zA-Z0-9._%+\-]+@[a-zA-Z0-9.\-]+\.[a-zA-Z]{2,}", token).group(0)
EMAIL_IN == ("b@y.io" :> "b@y.io") @@ ("a@x.io" :> "a@x.io")

\* tokens made of the characters of [\d\s\-().] only; every other token of the
\* vocabulary neither starts nor ends with such a character
PHONE_CLASS_TOKENS == {"555-0000", "7", "5551234567", "5"}

\* sum(c.isdigit() for c in token), where it is not 0
DIGITS_IN == ("555-0000" :> 7) @@ ("7" :> 1) @@ ("5551234567" :> 10) @@ ("5" :> 1)

\* the (\d+) a token ends with
TRAILING_DIGITS ==
    ("555-0000" :> "0000") @@ ("7" :> "7") @@ ("5551234567" :> "5551234567") @@
    ("5" :> "5")

\* re.match(r"(years?|yrs?)", token, re.IGNORECASE)
YEAR_UNIT_TOKENS == {"yrs", "years"}

\* re.findall(r"\w+", token.lower()), where it is not the lowered token itself
WORD_RUNS ==
    ("b@y.io" :> {"b", "y", "io"}) @@ ("555-0000" :> {"555", "0000"}) @@
    ("a@x.io" :> {"a", "x", "io"})

\* the kw of ["hello", "hi", "hey", "help"] with kw in token.lower()
GREETING_KW_IN == ("hello" :> {"hello"})

\* "invalid_api_key" / "rate_limit" in token.lower(), "401" / "429" in token
ERROR_MARKERS_IN ==
    ("401" :> {"401"}) @@ ("invalid_api_key" :> {"invalid_api_key"}) @@
    ("429" :> {"429"}) @@ ("rate_limit_exceeded" :> {"rate_limit"}) @@
    ("99401" :> {"401"})

\* the first words of the transition signals that token.lower() ends with
ENDS_WITH_WORD == ("now" :> {"now"}) @@ ("few" :> {"few"})

\* the last words of the transition signals that token.lower() starts with
STARTS_WITH_WORD ==
    ("your" :> {"your"}) @@ ("ask" :> {"ask"}) @@
    ("questions." :> {"question", "questions"}) @@ ("Question" :> {"question"})

\* tokens whose lower() ends with "question": what precedes it in the token
QUESTION_WORD_PREFIX == ("Question" :> "")

\* tokens that re.match(r"\d+[:\.]?", token): what follows the match in the token
QUESTION_NUMBER_REST ==
    ("1:" :> "") @@ ("2:" :> "") @@ ("3:" :> "") @@ ("4:" :> "") @@ ("5:" :> "") @@
    ("6:" :> "") @@ ("1." :> "") @@ ("2)" :> ")") @@ ("401" :> "") @@ ("429" :> "")

\* re.fullmatch(r"[\*\-]", token) and re.fullmatch(r"\d+[\.\)]", token)
BULLET_TOKENS == {"*", "-"}
LIST_NUMBER_TOKENS == {"1.", "2)"}

Lower(t) == IF t \in DOMAIN LOWERED THEN LOWERED[t] ELSE t

Title(t) == IF t \in DOMAIN TITLED THEN TITLED[t] ELSE t

Upper(t) == IF t \in DOMAIN UPPERED THEN UPPERED[t] ELSE t

LowerAll(s) == [i \in 1..Len(s) |-> Lower(s[i])]

TitleAll(s) == [i \in 1..Len(s) |-> Title(s[i])]

WordRuns(t) == IF t \in DOMAIN WORD_RUNS THEN WORD_RUNS[t] ELSE {Lower(t)}

Digits(t) == IF t \in DOMAIN DIGITS_IN THEN DIGITS_IN[t] ELSE 0

RECURSIVE SumLen(_)
SumLen(s) == IF s = << >> THEN 0 ELSE Len(Head(s)) + SumLen(Tail(s))

\* len() of the string a token sequence stands for
CharLen(s) == IF s = << >> THEN 0 ELSE SumLen(s) + (Len(s) - 1)

RECURSIVE SumDigits(_)
SumDigits(s) == IF s = << >> THEN 0 ELSE Digits(Head(s)) + SumDigits(Tail(s))

RECURSIVE Flatten(_)
Flatten(lines) == IF lines = << >> THEN << >> ELSE Head(lines) \o Flatten(Tail(lines))

\* the orders in which a Python set holding S can be iterated
Orders(S) ==
    {s \in [1..Cardinality(S) -> S] : \A i, j \in 1..Cardinality(S) : s[i] = s[j] => i = j}

Min(S) == CHOOSE x \in S : \A y \in S : x <= y

-----------------------------------------------------------------------------
(* ConversationManager.extract_and_update_info *)

\* re.search of the email pattern: the match in the leftmost token that holds one
EmailMatch(msg) ==
    LET hits == {i \in 1..Len(msg) : msg[i] \in DOMAIN EMAIL_IN}
    IN  IF hits = {} THEN None ELSE <<EMAIL_IN[msg[Min(hits)]]>>

\* The maximal run of [\d\s\-().] characters around tokens i..j: the tokens, the
\* spaces between them and the space on either side that separates the run from a
\* neighbouring token.
PhoneRunLast(msg, i) ==
    CHOOSE j \in i..Len(msg) :
        /\ \A k \in i..j : msg[k] \in PHONE_CLASS_TOKENS
        /\ (j = Len(msg) \/ msg[j + 1] \notin PHONE_CLASS_TOKENS)

PhoneRunChars(msg, i, j) ==
    CharLen(SubSeq(msg, i, j)) + (IF i > 1 THEN 1 ELSE 0) + (IF j < Len(msg) THEN 1 ELSE 0)

\* re.search(r"(\+?[\d\s\-().]{7,15})", msg): the leftmost run of at least 7
\* characters, stripped.  No run of the bounded inputs is longer than 15
\* characters, so the upper repetition bound cuts nothing here.
PhoneMatch(msg) ==
    LET starts == {i \in 1..Len(msg) :
                      /\ msg[i] \in PHONE_CLASS_TOKENS
                      /\ (i = 1 \/ msg[i - 1] \notin PHONE_CLASS_TOKENS)
                      /\ PhoneRunChars(msg, i, PhoneRunLast(msg, i)) >= PHONE_MIN_CHARS
                      /\ PhoneRunChars(msg, i, PhoneRunLast(msg, i)) <= PHONE_MAX_CHARS}
    IN  IF starts = {} THEN None
        ELSE SubSeq(msg, Min(starts), PhoneRunLast(msg, Min(starts)))

\* re.search(r"(\d+)\s*(years?|yrs?)", msg, re.IGNORECASE).group(1): the digits
\* that end the leftmost token followed by a unit (no token of the vocabulary
\* holds digits and unit together)
YearsMatch(msg) ==
    LET hits == {i \in 1..(Len(msg) - 1) :
                    msg[i] \in DOMAIN TRAILING_DIGITS /\ msg[i + 1] \in YEAR_UNIT_TOKENS}
    IN  IF hits = {} THEN None ELSE <<TRAILING_DIGITS[msg[Min(hits)]]>>

\* re.search(rf"\b{re.escape(tech)}\b", msg_lower).  A keyword made of word
\* characters matches where it is a whole run of word characters; the eight
\* keywords holding other characters ("c++", "next.js", "machine learning" ...)
\* occur in no utterance of the bounded inputs.
TechFound(msg) ==
    UNION {WordRuns(msg[i]) \cap TECH_KEYWORDS : i \in 1..Len(msg)}

\* tech.title() if len(tech) > 3 else tech.upper()
TechLabel(tech) == IF Len(tech) > ACRONYM_MAX_CHARS THEN Title(tech) ELSE Upper(tech)

\* AppendNew without the membership test: every label found is appended
AppendAll(stack, found, existing) == stack \o found

\* for t in found: if t.lower() not in existing: append (existing is computed
\* once, before the loop)
RECURSIVE AppendNew(_, _, _)
AppendNew(stack, found, existing) ==
    IF found = << >> THEN stack
    ELSE AppendNew(IF Lower(Head(found)) \notin existing
                   THEN Append(stack, Head(found)) ELSE stack,
                   Tail(found), existing)

\* TechStackUpdated with the existing entries forgotten: the labels found are
\* compared with nothing
TechStackExtended(stack, order) ==
    LET found == [i \in 1..Len(order) |-> TechLabel(order[i])]
    IN  IF found # << >> THEN AppendNew(stack, found, {}) ELSE stack

\* EmailUpdated without the `not self.candidate_info["email"]` test
EmailOverwritten(info, msg) ==
    IF EmailMatch(msg) # None THEN EmailMatch(msg) ELSE info.email

\* `order` is the order in which the for loop iterates the set TECH_KEYWORDS,
\* restricted to the keywords found; it depends on the process's string hashing.
TechStackUpdated(stack, order) ==
    LET found == [i \in 1..Len(order) |-> TechLabel(order[i])]
        existing == {Lower(stack[i]) : i \in 1..Len(stack)}
    IN  IF found # << >> THEN AppendNew(stack, found, existing) ELSE stack

EmailUpdated(info, msg) ==
    IF info.email = None /\ EmailMatch(msg) # None THEN EmailMatch(msg) ELSE info.email

PhoneUpdated(info, msg) ==
    IF /\ info.phone = None
       /\ PhoneMatch(msg) # None
       /\ SumDigits(PhoneMatch(msg)) >= PHONE_MIN_DIGITS
    THEN PhoneMatch(msg) ELSE info.phone

YearsUpdated(info, msg) ==
    IF info.years_experience = None /\ YearsMatch(msg) # None
    THEN YearsMatch(msg) \o <<"years">> ELSE info.years_experience

\* extract_and_update_info that also takes the utterance as the location
ExtractionFillingLocation(info, user_message, order) ==
    [info EXCEPT !.email = EmailUpdated(info, user_message),
                 !.phone = PhoneUpdated(info, user_message),
                 !.years_experience = YearsUpdated(info, user_message),
                 !.tech_stack = TechStackUpdated(info.tech_stack, order),
                 !.location = user_message]

\* extract_and_update_info(user_message), on the profile
extract_and_update_info(info, user_message, order) ==
    [info EXCEPT !.email = EmailUpdated(info, user_message),
                 !.phone = PhoneUpdated(info, user_message),
                 !.years_experience = YearsUpdated(info, user_message),
                 !.tech_stack = TechStackUpdated(info.tech_stack, order)]

-----------------------------------------------------------------------------
(* ConversationManager._parse_questions *)

\* Where "question\s*\d+" matches in the flattened text: a token ending with
\* "question" followed by a token starting with digits.
IsMarker(toks, i) ==
    /\ i >= 1
    /\ i + 1 <= Len(toks)
    /\ toks[i] \in DOMAIN QUESTION_WORD_PREFIX
    /\ toks[i + 1] \in DOMAIN QUESTION_NUMBER_REST

NonEmpty(str) == IF str = "" THEN << >> ELSE <<str>>

\* The lazy group (.+?) of the marker at i takes at least one character and
\* stops before the next "question\s*\d+" or at the end of the text.
BodyStops(toks, i) ==
    {j \in (i + 2)..Len(toks) :
        /\ IsMarker(toks, j)
        /\ (j > i + 2 \/ QUESTION_NUMBER_REST[toks[i + 1]] # ""
                      \/ QUESTION_WORD_PREFIX[toks[j]] # "")}

BodyStop(toks, i) ==
    LET stops == BodyStops(toks, i)
    IN  IF stops = {} THEN Len(toks) + 1 ELSE Min(stops)

\* q.strip().replace("\n", " ") of the group captured for the marker at i
Body(toks, i) ==
    LET j == BodyStop(toks, i)
    IN  NonEmpty(QUESTION_NUMBER_REST[toks[i + 1]])
        \o SubSeq(toks, i + 2, j - 1)
        \o (IF j <= Len(toks) THEN NonEmpty(QUESTION_WORD_PREFIX[toks[j]]) ELSE << >>)

\* re.findall(pattern, text, re.IGNORECASE | re.DOTALL), scanning from token `from`;
\* a marker with nothing after it captures nothing
RECURSIVE MarkedBodies(_, _)
MarkedBodies(toks, from) ==
    LET ms == {i \in from..Len(toks) : IsMarker(toks, i)}
    IN  IF ms = {} THEN << >>
        ELSE LET i == Min(ms)
                 body == Body(toks, i)
             IN  IF body = << >> THEN << >>
                 ELSE <<body>> \o MarkedBodies(toks, BodyStop(toks, i))

\* [q ... for q in matches if len(q.strip()) > 10]
LongEnough(bodies) == SelectSeq(bodies, LAMBDA q : CharLen(q) > QUESTION_MIN_CHARS)

\* the fallback: a line "<bullet>? <N>.|<N>) <at least 10 characters>"
ListItem(line) ==
    LET k == IF line # << >> /\ Head(line) \in BULLET_TOKENS THEN 2 ELSE 1
    IN  IF /\ Len(line) > k
           /\ line[k] \in LIST_NUMBER_TOKENS
           /\ CharLen(SubSeq(line, k + 1, Len(line))) >= LIST_ITEM_MIN_CHARS
        THEN SubSeq(line, k + 1, Len(line)) ELSE << >>

RECURSIVE ListItems(_)
ListItems(lines) ==
    IF lines = << >> THEN << >>
    ELSE LET item == ListItem(Head(lines))
         IN  (IF item # << >> THEN <<item>> ELSE << >>) \o ListItems(Tail(lines))

\* _parse_questions returning `questions` instead of `questions[:5]`
ParseUncapped(text) ==
    LET primary == LongEnough(MarkedBodies(Flatten(text), 1))
    IN  IF primary = << >> THEN ListItems(text) ELSE primary

\* re.findall on the "Question N" pattern, else the numbered-list lines; [:5]
_parse_questions(text) ==
    LET primary == LongEnough(MarkedBodies(Flatten(text), 1))
        found == IF primary = << >> THEN ListItems(text) ELSE primary
    IN  SubSeq(found, 1, IF Len(found) < MAX_QUESTIONS THEN Len(found) ELSE MAX_QUESTIONS)

-----------------------------------------------------------------------------
(* ConversationManager.process_ai_response and _advance_stage *)

StageIndex(s) == CHOOSE i \in 1..Len(STAGES) : STAGES[i] = s

\* _advance_stage: move to new_stage if it is a forward transition
_advance_stage(current, new_stage) ==
    IF StageIndex(new_stage) > StageIndex(current) THEN new_stage ELSE current

EndsWithWord(t, w) == t \in DOMAIN ENDS_WITH_WORD /\ w \in ENDS_WITH_WORD[t]

StartsWithWord(t, w) == t \in DOMAIN STARTS_WITH_WORD /\ w \in STARTS_WITH_WORD[t]

\* sig in ai_response.lower(), for a signal of two or more words: its words lie
\* in consecutive tokens of one line
SignalAt(line, i, sig) ==
    /\ i + Len(sig) - 1 <= Len(line)
    /\ EndsWithWord(line[i], sig[1])
    /\ StartsWithWord(line[i + Len(sig) - 1], sig[Len(sig)])
    /\ \A k \in 2..(Len(sig) - 1) : Lower(line[i + k - 1]) = sig[k]

HasTransitionSignal(ai_response) ==
    \E sig \in transition_signals : \E l \in 1..Len(ai_response) :
        \E i \in 1..Len(ai_response[l]) : SignalAt(ai_response[l], i, sig)

\* HasGreetingKeyword with the keyword test dropped from the greeting branch
GreetingKeywordIgnored(user_message) == FALSE

\* any(kw in user_message.lower() for kw in ["hello", "hi", "hey", "help"])
HasGreetingKeyword(user_message) ==
    \E i \in 1..Len(user_message) :
        /\ user_message[i] \in DOMAIN GREETING_KW_IN
        /\ GREETING_KW_IN[user_message[i]] \cap GREETING_KEYWORDS # {}

\* AllCollected with any() in the place of all()
AnyCollected(info) == \E k \in 1..Len(REQUIRED_FIELDS) : info[REQUIRED_FIELDS[k]] # None

\* all(info.get(f) for f in self.REQUIRED_FIELDS)
AllCollected(info) == \A k \in 1..Len(REQUIRED_FIELDS) : info[REQUIRED_FIELDS[k]] # None

\* QuestionsAfter without the `if not self.questions` test: every reply is parsed
QuestionsReparsed(st, qs, ai_response) ==
    IF st = "technical_questions" THEN _parse_questions(ai_response) ELSE qs

\* QuestionsAfter with the parse also made in the tech_stack branch
QuestionsParsedEarly(st, qs, ai_response) ==
    IF st \in {"tech_stack", "technical_questions"} /\ qs = << >>
    THEN _parse_questions(ai_response) ELSE qs

\* the questions after the technical_questions branch
QuestionsAfter(st, qs, ai_response) ==
    IF st = "technical_questions" /\ qs = << >> THEN _parse_questions(ai_response) ELSE qs

\* the answered count after the technical_questions branch
AnsweredAfter(st, qs2, answered, user_message) ==
    IF /\ st = "technical_questions"
       /\ qs2 # << >>
       /\ CharLen(user_message) > ANSWER_MIN_CHARS
    THEN (IF answered + 1 < Len(qs2) THEN answered + 1 ELSE Len(qs2))
    ELSE answered

\* ReadyForQuestions without the test on info["tech_stack"]
ReadyOnSignalAlone(info, ai_response) == HasTransitionSignal(ai_response)

\* info.get("tech_stack") and len(info["tech_stack"]) >= 1, then
\* any(sig in ai_response.lower() for sig in transition_signals)
ReadyForQuestions(info, ai_response) ==
    Len(info.tech_stack) >= 1 /\ HasTransitionSignal(ai_response)

\* QuestionsDone with > in the place of >=
QuestionsDoneStrict(qs2, n) == n > Len(qs2) /\ qs2 # << >>

\* self.answered_count >= len(self.questions) and self.questions
QuestionsDone(qs2, n) == n >= Len(qs2) /\ qs2 # << >>

\* StageAfter with the gathering_info branch calling
\* _advance_stage("technical_questions"), which _advance_stage accepts
StageAfterSkipping(st, info, qs2, n, ai_response, user_message) ==
    CASE st = "greeting" ->
            IF /\ Len(user_message) <= GREETING_MAX_WORDS
               /\ ~HasGreetingKeyword(user_message)
            THEN _advance_stage(st, "gathering_info")
            ELSE IF info.full_name # None
                 THEN _advance_stage(st, "gathering_info") ELSE st
      [] st = "gathering_info" ->
            IF AllCollected(info) THEN _advance_stage(st, "technical_questions") ELSE st
      [] st = "tech_stack" ->
            IF ReadyForQuestions(info, ai_response)
            THEN _advance_stage(st, "technical_questions") ELSE st
      [] st = "technical_questions" ->
            IF QuestionsDone(qs2, n) THEN _advance_stage(st, "closing") ELSE st
      [] OTHER -> st

\* StageAfter with the last branch assigning self.stage = "tech_stack" directly,
\* for another round of questions, instead of calling _advance_stage("closing")
StageAfterLooping(st, info, qs2, n, ai_response, user_message) ==
    CASE st = "greeting" ->
            IF /\ Len(user_message) <= GREETING_MAX_WORDS
               /\ ~HasGreetingKeyword(user_message)
            THEN _advance_stage(st, "gathering_info")
            ELSE IF info.full_name # None
                 THEN _advance_stage(st, "gathering_info") ELSE st
      [] st = "gathering_info" ->
            IF AllCollected(info) THEN _advance_stage(st, "tech_stack") ELSE st
      [] st = "tech_stack" ->
            IF Len(info.tech_stack) >= 1 /\ HasTransitionSignal(ai_response)
            THEN _advance_stage(st, "technical_questions") ELSE st
      [] st = "technical_questions" ->
            IF n >= Len(qs2) /\ qs2 # << >> THEN "tech_stack" ELSE st
      [] OTHER -> st

\* the stage after the if / elif chain on the stage the call started in
StageAfter(st, info, qs2, n, ai_response, user_message) ==
    CASE st = "greeting" ->
            IF /\ Len(user_message) <= GREETING_MAX_WORDS
               /\ ~HasGreetingKeyword(user_message)
            THEN _advance_stage(st, "gathering_info")
            ELSE IF info.full_name # None
                 THEN _advance_stage(st, "gathering_info") ELSE st
      [] st = "gathering_info" ->
            IF AllCollected(info) THEN _advance_stage(st, "tech_stack") ELSE st
      [] st = "tech_stack" ->
            IF ReadyForQuestions(info, ai_response)
            THEN _advance_stage(st, "technical_questions") ELSE st
      [] st = "technical_questions" ->
            IF QuestionsDone(qs2, n) THEN _advance_stage(st, "closing") ELSE st
      [] OTHER -> st

\* the name heuristic that ends process_ai_response; it reads the stage the call
\* started in
NameAfter(st, info, user_message) ==
    IF /\ info.full_name = None
       /\ st \in {"greeting", "gathering_info"}
       /\ 1 <= Len(user_message) /\ Len(user_message) <= NAME_MAX_WORDS
       /\ \A i \in 1..Len(user_message) :
              user_message[i] \in UPPER_FIRST_TOKENS \/ user_message[i] \in ALPHA_TOKENS
    THEN TitleAll(user_message) ELSE info.full_name

\* the manager's state after process_ai_response(ai_response, user_message)
process_ai_response(m, ai_response, user_message) ==
    LET qs2 == QuestionsAfter(m.stage, m.questions, ai_response)
        n == AnsweredAfter(m.stage, qs2, m.answered_count, user_message)
    IN  [stage |-> StageAfter(m.stage, m.candidate_info, qs2, n, ai_response, user_message),
         candidate_info |-> [m.candidate_info EXCEPT
                                !.full_name = NameAfter(m.stage, m.candidate_info, user_message)],
         questions |-> qs2,
         answered_count |-> n]

\* the manager's state after the two calls handle_user_input makes around the
\* completion: extract_and_update_info(user_message), then
\* process_ai_response(ai_response, user_message)
TurnOf(m, user_message, ai_response, order) ==
    process_ai_response(
        [m EXCEPT !.candidate_info =
            extract_and_update_info(m.candidate_info, user_message, order)],
        ai_response, user_message)

-----------------------------------------------------------------------------
(* ConversationManager: construction, greeting, farewell, system prompt *)

\* __init__
NewCandidateInfo ==
    [full_name |-> None, email |-> None, phone |-> None, years_experience |-> None,
     desired_position |-> None, location |-> None, tech_stack |-> << >>]

NewManager ==
    [stage |-> "greeting", candidate_info |-> NewCandidateInfo,
     questions |-> << >>, answered_count |-> 0]

\* the manager as one value
Manager ==
    [stage |-> stage, candidate_info |-> candidate_info,
     questions |-> questions, answered_count |-> answered_count]

\* get_greeting (the fixed text, cut to its first line)
get_greeting ==
    <<<<"(wave)", "**Welcome", "to", "TalentScout's", "Hiring", "Assistant!**">>>>

\* name = full_name or "there"; first = name.split()[0] if name != "there" else name
FarewellFirst(info) ==
    IF info.full_name = None \/ info.full_name = <<"there">> THEN "there"
    ELSE info.full_name[1]

\* get_farewell_message (the line that holds the name, then the fixed last line)
get_farewell_message(info) ==
    <<<<"(party)", "**Thank", "you,", FarewellFirst(info) \o "!**">>,
      <<"*This", "session", "has", "ended.">>>>

\* missing = [f for f in self.REQUIRED_FIELDS if not info.get(f)]
Missing(info) == SelectSeq(REQUIRED_FIELDS, LAMBDA f : info[f] = None)

\* _stage_instructions: which directive is rendered, and the values it interpolates
_stage_instructions(m) ==
    LET blank == [directive |-> "", missing |-> << >>, stack |-> << >>,
                  q_count |-> 0, answered |-> 0]
    IN  CASE m.stage = "greeting" -> [blank EXCEPT !.directive = "Greeting"]
          [] m.stage = "gathering_info" ->
                IF Missing(m.candidate_info) = << >>
                THEN [blank EXCEPT !.directive = "Gathering Info - COMPLETE"]
                ELSE [blank EXCEPT !.directive = "Gathering Info",
                                   !.missing = Missing(m.candidate_info)]
          [] m.stage = "tech_stack" -> [blank EXCEPT !.directive = "Tech Stack Declaration"]
          [] m.stage = "technical_questions" ->
                IF Len(m.questions) = 0
                THEN [blank EXCEPT !.directive = "Technical Questions - GENERATE NOW",
                                   !.stack = m.candidate_info.tech_stack]
                ELSE IF Len(m.questions) - m.answered_count > 0
                THEN [blank EXCEPT !.directive = "Technical Questions - IN PROGRESS",
                                   !.q_count = Len(m.questions),
                                   !.answered = m.answered_count]
                ELSE [blank EXCEPT !.directive = "Technical Questions - COMPLETE"]
          [] m.stage = "closing" -> [blank EXCEPT !.directive = "Closing"]
          [] OTHER -> blank

\* _context_block: every field's value ("not yet provided" for None) and the counts
_context_block(m) ==
    [info |-> m.candidate_info, q_count |-> Len(m.questions), answered |-> m.answered_count]

\* get_system_prompt: base rules, stage directive, context recap
get_system_prompt(m) ==
    [base |-> "CORE RULES", stage_specific |-> _stage_instructions(m),
     context |-> _context_block(m)]

-----------------------------------------------------------------------------
(* app.py: get_ai_response *)

NO_KEY_REPLY ==
    <<<<"(cross-mark)", "API", "key", "not", "found.", "Please", "restart", "and",
        "enter", "your", "Groq", "API", "key.">>>>

INVALID_KEY_REPLY ==
    <<<<"(cross-mark)", "Invalid", "API", "key.", "Please", "restart", "and",
        "enter", "a", "valid", "Groq", "API", "key.">>>>

RATE_LIMIT_REPLY ==
    <<<<"(warning)", "Rate", "limit", "hit.", "Please", "wait", "a", "moment",
        "and", "try", "again.">>>>

\* needle in str(e) (lower-cased for the two names, as is for the two codes)
ErrorHas(error_msg, needles) ==
    \E l \in 1..Len(error_msg) : \E i \in 1..Len(error_msg[l]) :
        /\ error_msg[l][i] \in DOMAIN ERROR_MARKERS_IN
        /\ ERROR_MARKERS_IN[error_msg[l][i]] \cap needles # {}

\* the except branch: the reply a raised completion turns into
ErrorReply(error_msg) ==
    IF ErrorHas(error_msg, {"invalid_api_key", "401"}) THEN INVALID_KEY_REPLY
    ELSE IF ErrorHas(error_msg, {"rate_limit", "429"}) THEN RATE_LIMIT_REPLY
    ELSE <<<<"(warning)", "Error:">> \o Head(error_msg)>> \o Tail(error_msg)

\* the message list built for client.chat.completions.create
BuildRequest(m, history, user_message) ==
    <<[role |-> "system", content |-> get_system_prompt(m)]>>
    \o history
    \o <<[role |-> "user", content |-> <<user_message>>]>>

\* get_ai_response: the reply, and the requests sent (none without a key)
get_ai_response(key, m, history, user_message, completion) ==
    IF key = "" THEN [reply |-> NO_KEY_REPLY, sent |-> << >>]
    ELSE [reply |-> IF completion.kind = "ok" THEN completion.text
                    ELSE ErrorReply(completion.text),
          sent |-> <<BuildRequest(m, history, user_message)>>]

-----------------------------------------------------------------------------
(* data_handler.py: DataHandler.save_session *)

REDACTED == "[REDACTED]"

\* content.replace(s, "[REDACTED]") on one line; no token of the vocabulary
\* holds an email or a phone value as a proper part
RECURSIVE ReplaceIn(_, _)
ReplaceIn(line, s) ==
    IF Len(line) < Len(s) THEN line
    ELSE IF SubSeq(line, 1, Len(s)) = s
         THEN <<REDACTED>> \o ReplaceIn(SubSeq(line, Len(s) + 1, Len(line)), s)
         ELSE <<Head(line)>> \o ReplaceIn(Tail(line), s)

ReplaceAll(content, s) == [l \in 1..Len(content) |-> ReplaceIn(content[l], s)]

\* Sensitive without the phone value
SensitiveEmailOnly(info) == IF info.email # None THEN <<info.email>> ELSE << >>

\* sensitive = [v for v in [email, phone] if v]
Sensitive(info) ==
    (IF info.email # None THEN <<info.email>> ELSE << >>)
    \o (IF info.phone # None THEN <<info.phone>> ELSE << >>)

RECURSIVE Redact(_, _)
Redact(content, sensitive) ==
    IF sensitive = << >> THEN content
    ELSE Redact(ReplaceAll(content, Head(sensitive)), Tail(sensitive))

_sanitise_transcript(msgs, info) ==
    [i \in 1..Len(msgs) |->
        [role |-> msgs[i].role, content |-> Redact(msgs[i].content, Sensitive(info))]]

\* _generate_session_id: "ts_" and a digest of (email or "") + the time of the call
_generate_session_id(info) == <<"ts_", "sha256">> \o info.email

\* _hash(value): value.encode() raises AttributeError on None
HashRaises(value) == value = None

_hash(value) == <<"sha256">> \o value

\* the profile document, written first
ProfileDocument(info) ==
    [path |-> <<"candidates">> \o _generate_session_id(info), candidate |-> info]

\* the session log, written second
SessionDocument(info, msgs) ==
    [path |-> <<"sessions">> \o _generate_session_id(info),
     candidate_id_hash |-> _hash(info.email),
     tech_stack |-> info.tech_stack,
     message_count |-> Len(msgs),
     transcript |-> _sanitise_transcript(msgs, info)]

\* save_session: candidate_info.get("email", "") is None while no email is known
\* (the key is always present), so building the session log raises after the
\* profile document has been written
save_session(info, msgs) ==
    IF HashRaises(info.email)
    THEN [raised |-> TRUE, docs |-> <<ProfileDocument(info)>>]
    ELSE [raised |-> FALSE, docs |-> <<ProfileDocument(info), SessionDocument(info, msgs)>>]

-----------------------------------------------------------------------------
(* app.py: handle_user_input and main *)

\* IsExit without .lower(): the tokens are compared as typed
IsExitAsTyped(user_input) == \E i \in 1..Len(user_input) : user_input[i] \in EXIT_KEYWORDS

\* any(kw in user_input.lower().split() for kw in EXIT_KEYWORDS)
IsExit(user_input) == \E i \in 1..Len(user_input) : Lower(user_input[i]) \in EXIT_KEYWORDS

\* the number of utterances the session has taken
Turns == Cardinality({i \in 1..Len(messages) : messages[i].role = "user"})

\* AcceptsInput without the `if st.session_state.conversation_ended: return` of main()
AcceptsInputAfterEnd == api_key_set /\ greeted

\* main() reaches st.chat_input: the key is set and the session has not ended
AcceptsInput == api_key_set /\ greeted /\ ~conversation_ended

\* ExitTurn with extract_and_update_info called before the exit test
ExitTurnExtracting(user_input, history) ==
    \E order \in Orders(TechFound(user_input)) :
        LET info == extract_and_update_info(candidate_info, user_input, order)
            saved == save_session(info, history)
        IN  /\ conversation_ended' = TRUE
            /\ candidate_info' = info
            /\ save_calls' = Append(save_calls, [candidate_info |-> info,
                                                messages |-> history])
            /\ written' = written \o saved.docs
            /\ last_reply' = IF saved.raised
                             THEN [outcome |-> "raised", text |-> <<<<"AttributeError">>>>]
                             ELSE [outcome |-> "returned",
                                   text |-> get_farewell_message(info)]
            /\ messages' = IF saved.raised THEN history
                           ELSE Append(history, [role |-> "assistant",
                                                 content |-> get_farewell_message(info)])
            /\ UNCHANGED <<stage, questions, answered_count, api_requests>>

\* handle_user_input on an exit utterance; `history` already ends with it
ExitTurn(user_input, history) ==
    LET saved == save_session(candidate_info, history)
    IN  /\ conversation_ended' = TRUE
        /\ save_calls' = Append(save_calls, [candidate_info |-> candidate_info,
                                            messages |-> history])
        /\ written' = written \o saved.docs
        /\ last_reply' = IF saved.raised
                         THEN [outcome |-> "raised", text |-> <<<<"AttributeError">>>>]
                         ELSE [outcome |-> "returned",
                               text |-> get_farewell_message(candidate_info)]
        /\ messages' = IF saved.raised THEN history
                       ELSE Append(history, [role |-> "assistant",
                                             content |-> get_farewell_message(candidate_info)])
        /\ UNCHANGED <<manager_vars, api_requests>>

\* handle_user_input on any other utterance
ReplyTurn(user_input, history, completion, order) ==
    LET extracted == [Manager EXCEPT !.candidate_info =
                         extract_and_update_info(candidate_info, user_input, order)]
        got == get_ai_response(api_key, extracted, history, user_input, completion)
        after == process_ai_response(extracted, got.reply, user_input)
    IN  /\ stage' = after.stage
        /\ candidate_info' = after.candidate_info
        /\ questions' = after.questions
        /\ answered_count' = after.answered_count
        /\ api_requests' = api_requests \o got.sent
        /\ last_reply' = [outcome |-> "returned", text |-> got.reply]
        /\ messages' = Append(history, [role |-> "assistant", content |-> got.reply])
        /\ UNCHANGED <<conversation_ended, save_calls, written>>

\* One run of main() with an utterance in st.chat_input: the utterance is appended
\* to the transcript, handle_user_input runs, its reply is appended.
Turn(user_input, completion, order) ==
    /\ AcceptsInput
    /\ Turns < MaxTurns
    /\ LET history == Append(messages, [role |-> "user", content |-> <<user_input>>])
       IN  IF IsExit(user_input)
           THEN ExitTurn(user_input, history)
           ELSE ReplyTurn(user_input, history, completion, order)
    /\ UNCHANGED <<api_key, api_key_set, greeted>>

UserTurn ==
    \E user_input \in Utterances : \E completion \in Completions :
        \E order \in Orders(TechFound(user_input)) : Turn(user_input, completion, order)

\* the state a rerun of main() leaves a fresh session in, once the key is set
FreshSession ==
    /\ api_key_set' = TRUE
    /\ greeted' = TRUE
    /\ messages' = <<[role |-> "assistant", content |-> get_greeting]>>
    /\ conversation_ended' = FALSE
    /\ stage' = NewManager.stage
    /\ candidate_info' = NewManager.candidate_info
    /\ questions' = NewManager.questions
    /\ answered_count' = NewManager.answered_count
    /\ api_requests' = << >>
    /\ save_calls' = << >>
    /\ written' = << >>
    /\ last_reply' = [outcome |-> "none", text |-> << >>]

\* render_api_key_screen: "Save & Start" with a key typed in
SaveKey ==
    /\ ~api_key_set
    /\ api_key' = "gsk_key"
    /\ FreshSession

\* render_sidebar: "Start New Session" deletes the session state and reruns
StartNewSession ==
    /\ api_key_set
    /\ UNCHANGED api_key
    /\ FreshSession

Init ==
    /\ api_key \in {"", "gsk_key"}
    /\ api_key_set = (api_key # "")
    /\ greeted = api_key_set
    /\ messages = IF api_key_set
                  THEN <<[role |-> "assistant", content |-> get_greeting]>> ELSE << >>
    /\ conversation_ended = FALSE
    /\ stage = NewManager.stage
    /\ candidate_info = NewManager.candidate_info
    /\ questions = NewManager.questions
    /\ answered_count = NewManager.answered_count
    /\ api_requests = << >>
    /\ save_calls = << >>
    /\ written = << >>
    /\ last_reply = [outcome |-> "none", text |-> << >>]

Next == UserTurn \/ SaveKey \/ StartNewSession

Spec == Init /\ [][Next]_vars

-----------------------------------------------------------------------------
(* The conversation manager on its own                                     *)
(*                                                                         *)
(* No statement of the repository assigns desired_position or location, so *)
(* a session through main() never holds them.  To exercise the stages      *)
(* after gathering_info the manager is also driven directly, as a caller   *)
(* of the class can: the two fields of the public candidate_info dict are  *)
(* preset (or left None), and each step makes the calls of one turn,       *)
(* extract_and_update_info then process_ai_response (app.py 181-183), with *)
(* any reply text get_ai_response can return.                              *)

\* What the manager is fed: the utterances handle_user_input passes on (an exit
\* utterance never reaches the manager) and the replies get_ai_response returns
ManagerUtterances ==
    {U_hello, U_name, U_email, U_contact, U_contact2, U_scenario, U_tech, U_ok}

ManagerReplies == ModelTexts \cup {RATE_LIMIT_REPLY, NO_KEY_REPLY}

PRESET_POSITION == <<"Backend", "Developer">>
PRESET_LOCATION == <<"Paris">>

InitManager ==
    /\ api_key = "gsk_key"
    /\ api_key_set = TRUE
    /\ greeted = TRUE
    /\ messages = <<[role |-> "assistant", content |-> get_greeting]>>
    /\ conversation_ended = FALSE
    /\ stage = NewManager.stage
    /\ \E position \in {None, PRESET_POSITION} : \E location \in {None, PRESET_LOCATION} :
          candidate_info = [NewCandidateInfo EXCEPT !.desired_position = position,
                                                    !.location = location]
    /\ questions = NewManager.questions
    /\ answered_count = NewManager.answered_count
    /\ api_requests = << >>
    /\ save_calls = << >>
    /\ written = << >>
    /\ last_reply = [outcome |-> "none", text |-> << >>]

ManagerTurn(user_message, ai_response, order) ==
    LET after == TurnOf(Manager, user_message, ai_response, order)
    IN  /\ stage' = after.stage
        /\ candidate_info' = after.candidate_info
        /\ questions' = after.questions
        /\ answered_count' = after.answered_count
        /\ UNCHANGED <<session_vars, io_vars>>

NextManager ==
    \E user_message \in ManagerUtterances :
        \E order \in Orders(TechFound(user_message)) : \E ai_response \in ManagerReplies :
            ManagerTurn(user_message, ai_response, order)

SpecManager == InitManager /\ [][NextManager]_vars

-----------------------------------------------------------------------------
(* Properties                                                              *)

\* the utterance of the turn a step takes, when the step is a turn: main()
\* appends it to the transcript before anything else
TurnTaken ==
    /\ Len(messages') > Len(messages)
    /\ SubSeq(messages', 1, Len(messages)) = messages
    /\ messages'[Len(messages) + 1].role = "user"

Said == messages'[Len(messages) + 1].content[1]

\* the index in the transcript of the latest utterance
LastUser ==
    CHOOSE i \in 1..Len(messages) :
        /\ messages[i].role = "user"
        /\ \A j \in (i + 1)..Len(messages) : messages[j].role # "user"

IsPrefix(s, t) == Len(s) <= Len(t) /\ SubSeq(t, 1, Len(s)) = s

\* C1: over any sequence of turns the ordinal of the stage in STAGES never
\* decreases from one turn to the next (so closing, the last, is never left)
C1_StageNeverDecreases == [][StageIndex(stage') >= StageIndex(stage)]_vars

\* every stage has been passed: the conversation has reached closing
C1_Witness == stage = "closing" /\ answered_count >= 1

\* The manager states that turns can produce from the states in S, for every
\* utterance that is no exit utterance and every reply text
RECURSIVE ReachableManagers(_)
ReachableManagers(S) ==
    LET after == S \cup UNION {{TurnOf(m, u, r, order) :
                                   m \in S, r \in ManagerReplies,
                                   order \in Orders(TechFound(u))} :
                                u \in {v \in Utterances : ~IsExit(v)}}
    IN  IF after = S THEN S ELSE ReachableManagers(after)

\* C2: from a fresh session some sequence of turns takes the stage through all
\* five stages, up to closing
C2_EveryStageReachable ==
    Manager = NewManager =>
        \A k \in 1..Len(STAGES) : \E m \in ReachableManagers({Manager}) : m.stage = STAGES[k]

\* What holds instead: desired_position and location are never assigned, so a
\* session never leaves gathering_info
StageStuckBeforeTechStack ==
    /\ stage \in {"greeting", "gathering_info"}
    /\ candidate_info.desired_position = None
    /\ candidate_info.location = None

\* C3: once a turn has found an exit keyword, conversation_ended is true and the
\* turn returned the farewell, personalised with the first word of full_name or
\* with "there", whatever the profile holds
C3_ExitReturnsFarewell ==
    conversation_ended =>
        /\ last_reply.outcome = "returned"
        /\ last_reply.text = get_farewell_message(candidate_info)
        /\ last_reply.text[1][4] =
              (IF candidate_info.full_name = None THEN "there"
               ELSE candidate_info.full_name[1]) \o "!**"

\* C4: save_session is called exactly once in a session that has ended, on the
\* exit turn, with the profile and the transcript up to the exit utterance, and
\* not at all in a session that has not ended
C4_SavedOnceOnExit ==
    IF conversation_ended
    THEN /\ Len(save_calls) = 1
         /\ save_calls[1].candidate_info = candidate_info
         /\ save_calls[1].messages = SubSeq(messages, 1, LastUser)
         /\ \E i \in 1..Len(messages[LastUser].content[1]) :
               Lower(messages[LastUser].content[1][i]) \in EXIT_KEYWORDS
    ELSE save_calls = << >>

\* the session ended on its second turn
C4_Witness == conversation_ended /\ Turns = 2 /\ Len(save_calls) = 1

C6_ExitTurnChangesNothing ==
    [][(~conversation_ended /\ conversation_ended')
         => UNCHANGED <<candidate_info, stage, questions, answered_count, api_requests>>]_vars

\* the session ended on an utterance holding an email, a phone number, years
\* and a tech keyword, and the profile holds none of them
C6_Witness ==
    /\ conversation_ended
    /\ messages[LastUser].content = <<U_byeAll>>
    /\ candidate_info.email = None
    /\ candidate_info.phone = None
    /\ candidate_info.years_experience = None
    /\ candidate_info.tech_stack = << >>

\* C7: a scalar field of the profile that holds a value keeps it on every turn
C7_ScalarFieldsNeverOverwritten ==
    [][\A k \in 1..Len(REQUIRED_FIELDS) :
          candidate_info[REQUIRED_FIELDS[k]] # None =>
              candidate_info'[REQUIRED_FIELDS[k]] = candidate_info[REQUIRED_FIELDS[k]]]_vars

\* the email is the first one given, the phone number came with the second
C7_Witness ==
    /\ candidate_info.email = <<"a@x.io">>
    /\ candidate_info.phone = <<"555-0000", "7">>

NoCaseDuplicates(stack) ==
    \A i, j \in 1..Len(stack) : Lower(stack[i]) = Lower(stack[j]) => i = j

\* C8: after every turn tech_stack has no two entries equal up to case, and the
\* tech_stack before the turn is a prefix of the tech_stack after it
C8_TechStackAppendOnlyNoDuplicates ==
    [][/\ NoCaseDuplicates(candidate_info'.tech_stack)
       /\ IsPrefix(candidate_info.tech_stack, candidate_info'.tech_stack)]_vars

\* three technologies from two utterances that both name Python
C8_Witness == Len(candidate_info.tech_stack) = 3

\* C9: from every profile and for every utterance, extracting from the utterance
\* a second time leaves tech_stack as the first extraction left it
C9_TechExtractionIdempotent ==
    \A u \in Utterances : \A first, second \in Orders(TechFound(u)) :
        LET once == extract_and_update_info(candidate_info, u, first)
        IN  extract_and_update_info(once, u, second).tech_stack = once.tech_stack

\* a profile as a first extraction left it: its tech_stack is what an utterance
\* names, in one of the two orders
C9_Witness ==
    \E u \in Utterances : \E order \in Orders(TechFound(u)) :
        /\ Len(order) = 2
        /\ candidate_info.tech_stack = <<TechLabel(order[1]), TechLabel(order[2])>>

\* the six required fields as the stage evaluation of a turn finds them: the
\* turn's extraction has run, its name heuristic has not
CollectedAtEvaluation ==
    /\ candidate_info.full_name # None
    /\ candidate_info'.email # None
    /\ candidate_info'.phone # None
    /\ candidate_info'.years_experience # None
    /\ candidate_info'.desired_position # None
    /\ candidate_info'.location # None

\* C10: a stage evaluation in gathering_info leaves the stage at tech_stack when
\* all six required fields are populated at that moment, and at gathering_info
\* otherwise
C10_GatheringInfoToTechStack ==
    [][stage = "gathering_info" =>
          stage' = (IF CollectedAtEvaluation THEN "tech_stack" ELSE "gathering_info")]_vars

\* the stage evaluation found all six fields
C10_Witness == stage = "tech_stack" /\ AllCollected(candidate_info)

\* C11: a stage evaluation in technical_questions leaves the stage at closing,
\* in that same evaluation, when the answered count it produced has reached the
\* number of questions and there is a question; otherwise the stage stays
\* technical_questions
C11_ClosingOnLastAnswer ==
    [][stage = "technical_questions" =>
          stage' = (IF answered_count' >= Len(questions') /\ questions' # << >>
                    THEN "closing" ELSE "technical_questions")]_vars

\* the last of two questions has been answered
C11_Witness == stage = "closing" /\ Len(questions) = 2 /\ answered_count = 2

\* C12 as stated: the questions come from the first reply evaluated in
\* technical_questions, so on the step that enters technical_questions, whatever
\* the next two turns bring, the second of them leaves the questions as the
\* first left them
C12_PopulatedByFirstReply ==
    [][stage = "tech_stack" /\ stage' = "technical_questions" =>
          \A r1, r2 \in ManagerReplies : \A u \in {U_ok, U_contact} :
              LET entered == [stage |-> stage', candidate_info |-> candidate_info',
                              questions |-> questions', answered_count |-> answered_count']
                  first == TurnOf(entered, u, r1, << >>)
                  second == TurnOf(first, u, r2, << >>)
              IN  second.questions = first.questions]_vars

\* C12 as amended: questions that are not empty are never changed, and empty
\* questions are populated only by an evaluation in technical_questions, with
\* what _parse_questions finds in a reply
C12_PopulatedOnceNeverRegenerated ==
    [][/\ questions # << >> => questions' = questions
       /\ (questions = << >> /\ questions' # << >>) =>
             /\ stage = "technical_questions"
             /\ \E r \in ManagerReplies : questions' = _parse_questions(r)]_vars

\* two turns at least have been evaluated since the five questions were parsed
C12_Witness == Len(questions) = 5 /\ answered_count = 3

\* C13: always 0 <= answered_count <= number of questions <= 5, and a turn
\* leaves answered_count as it was or adds exactly 1 to it
C13_AnsweredCountBounded ==
    /\ answered_count = 0
    /\ [][/\ answered_count' \in {answered_count, answered_count + 1}
          /\ answered_count' <= Len(questions')
          /\ Len(questions') <= 5]_vars

\* a reply with six questions was cut to five, and all five were answered
C13_Witness == Len(questions) = 5 /\ answered_count = 5

\* C14: a stage evaluation in greeting leaves the stage at gathering_info
\* exactly when the utterance has at most 5 tokens and none of hello, hi, hey,
\* help within it, or full_name was populated before the evaluation; otherwise
\* the stage stays greeting
C14_GreetingToGatheringInfo ==
    [][(TurnTaken /\ ~conversation_ended' /\ stage = "greeting") =>
          stage' = (IF \/ /\ Len(Said) <= 5
                          /\ \A i \in 1..Len(Said) :
                                Said[i] \in DOMAIN GREETING_KW_IN =>
                                   GREETING_KW_IN[Said[i]] \cap {"hello", "hi", "hey", "help"} = {}
                       \/ candidate_info.full_name # None
                    THEN "gathering_info" ELSE "greeting")]_vars

\* "hello" twice: the first kept the stage and the name heuristic stored it as
\* a name, the second advanced the stage because full_name was populated
C14_Witness ==
    /\ stage = "gathering_info"
    /\ Turns = 2
    /\ messages[2].content = <<U_hello>>
    /\ messages[4].content = <<U_hello>>

\* C15: a stage evaluation in tech_stack leaves the stage at technical_questions
\* exactly when tech_stack is not empty and the reply, lower-cased, contains one
\* of the six transition phrases; otherwise the stage stays tech_stack
C15_TechStackToQuestions ==
    stage = "tech_stack" =>
        \A u \in ManagerUtterances : \A order \in Orders(TechFound(u)) :
            \A r \in ManagerReplies :
                LET extracted == extract_and_update_info(candidate_info, u, order)
                    signalled ==
                        \E sig \in {<<"technical", "question">>, <<"few", "questions">>,
                                    <<"based", "on", "your", "stack">>, <<"assess", "your">>,
                                    <<"let's", "test">>, <<"now", "ask">>} :
                            \E l \in 1..Len(r) : \E i \in 1..Len(r[l]) : SignalAt(r[l], i, sig)
                IN  TurnOf(Manager, u, r, order).stage =
                        (IF extracted.tech_stack # << >> /\ signalled
                         THEN "technical_questions" ELSE "tech_stack")

\* the stage is tech_stack and no technology is known yet, so a reply with a
\* transition phrase meets an empty tech_stack
C15_Witness == stage = "tech_stack" /\ candidate_info.tech_stack = << >>

\* the failures that report a rejected key (the client's AuthenticationError);
\* the other error texts are a rate-limit failure, one of them quoting a usage
\* figure, and a connection failure
AuthenticationErrors == {<<E_auth>>}

\* C16: no turn of a session that goes on has raised, and whenever a turn can be
\* taken, a completion that fails on it (rejected key, exhausted quota, anything
\* else, or no key at all) becomes a reply that is not empty and starts with
\* the cross mark for a rejected or missing key and with the warning sign for
\* an exhausted quota and for any other failure
C16_FailureBecomesReply ==
    ~conversation_ended =>
        /\ last_reply.outcome # "raised"
        /\ AcceptsInput =>
              \A u \in {v \in Utterances : ~IsExit(v)} : \A e \in ErrorTexts :
                  \A key \in {api_key, ""} :
                      LET history == Append(messages, [role |-> "user", content |-> <<u>>])
                          got == get_ai_response(key, Manager, history, u,
                                                 [kind |-> "raise", text |-> e])
                      IN  /\ got.reply # << >>
                          /\ got.reply[1][1] =
                                (IF key = "" \/ e \in AuthenticationErrors
                                 THEN "(cross-mark)" ELSE "(warning)")


\* C17: when the first utterance of a session is "I have 5 years of experience
\* with Python and Docker", the profile afterwards has years_experience
\* "5 years" and the tech_stack "Python" then "Docker", in the order of
\* mention, and the stage is still greeting
C17_ScenarioExtraction ==
    (Turns = 1 /\ ~conversation_ended /\ Len(messages) = 3
        /\ messages[2].content = <<U_scenario>>) =>
        /\ candidate_info.years_experience = <<"5", "years">>
        /\ candidate_info.tech_stack = <<"Python", "Docker">>
        /\ stage = "greeting"

\* s occurs in line as a run of consecutive tokens
OccursIn(s, line) ==
    \E i \in 1..(Len(line) - Len(s) + 1) : SubSeq(line, i, i + Len(s) - 1) = s

\* the session logs written so far
SessionLogs == {written[k] : k \in {j \in 1..Len(written) : written[j].path[1] = "sessions"}}

\* C18: every stored session transcript has as many messages as the transcript
\* save_session was given, with the same roles in the same order, and no line
\* of it holds the email or the phone value of the profile that was saved
C18_TranscriptRedacted ==
    \A d \in SessionLogs :
        LET info == save_calls[1].candidate_info
            msgs == save_calls[1].messages
        IN  /\ Len(d.transcript) = Len(msgs)
            /\ \A i \in 1..Len(msgs) :
                  /\ d.transcript[i].role = msgs[i].role
                  /\ \A l \in 1..Len(d.transcript[i].content) :
                        /\ info.email # None =>
                              ~OccursIn(info.email, d.transcript[i].content[l])
                        /\ info.phone # None =>
                              ~OccursIn(info.phone, d.transcript[i].content[l])

\* a session log was written for a profile with an email and a phone, both of
\* which the transcript given to save_session held
C18_Witness ==
    /\ SessionLogs # {}
    /\ save_calls[1].candidate_info.phone # None
    /\ \E i \in 1..Len(save_calls[1].messages) :
          /\ OccursIn(save_calls[1].candidate_info.email,
                      save_calls[1].messages[i].content[1])
          /\ OccursIn(save_calls[1].candidate_info.phone,
                      save_calls[1].messages[i].content[1])

\* the step sent a request to the completion service
RequestSent == Len(api_requests') = Len(api_requests) + 1

\* C19: on every turn that calls the completion service, the context recap of
\* the system prompt sent shows the profile as the turn leaves it, that is with
\* every update the turn derived from the utterance, the full name included
C19_RecapShowsTurnUpdates ==
    [][(TurnTaken /\ RequestSent) =>
          api_requests'[Len(api_requests')][1].content.context.info = candidate_info']_vars

\* C20: the message list sent on a turn is the system instruction, then the
\* transcript as it was before the turn, then the new utterance, once
C20_RequestLayout ==
    [][(TurnTaken /\ RequestSent) =>
          LET request == api_requests'[Len(api_requests')]
          IN  /\ request[1].role = "system"
              /\ Tail(request) =
                    messages \o <<[role |-> "user", content |-> <<Said>>]>>]_vars

\* C21: in technical_questions a turn raises answered_count only if a question
\* list existed when the turn began and the utterance is longer than 10
\* characters; the turn whose reply is the first to be parsed into questions
\* leaves answered_count at 0 and the stage at technical_questions
C21_NoAnswerCountedOnParseTurn ==
    stage = "technical_questions" =>
        \A u \in ManagerUtterances : \A order \in Orders(TechFound(u)) :
            \A r \in ManagerReplies :
                LET after == TurnOf(Manager, u, r, order)
                IN  /\ after.answered_count > answered_count =>
                          questions # << >> /\ CharLen(u) > 10
                    /\ (questions = << >> /\ after.questions # << >>) =>
                          after.answered_count = 0 /\ after.stage = "technical_questions"

\* the replies get_ai_response returns for a completion that raised
ErrorReplies == {ErrorReply(e) : e \in ErrorTexts}

\* C22: a turn whose completion failed, so that the reply is an error text,
\* leaves the stage, the question list and answered_count as they were
C22_FailedTurnChangesNothing ==
    [][(TurnTaken /\ ~conversation_ended' /\ last_reply'.text \in ErrorReplies) =>
          /\ stage' = stage
          /\ questions' = questions
          /\ answered_count' = answered_count]_vars

\* C23: in every reachable state a non-empty question list means the stage is
\* technical_questions or closing; in closing the list is non-empty and
\* answered_count equals its length; and in technical_questions, where the
\* next turn starts, either there is no question or answered_count is below
\* the number of questions
C23_QuestionsAndStage ==
    /\ questions # << >> => stage \in {"technical_questions", "closing"}
    /\ stage = "closing" => questions # << >> /\ answered_count = Len(questions)
    /\ stage = "technical_questions" =>
          questions = << >> \/ answered_count < Len(questions)

\* half way through two questions: a turn starts in technical_questions with
\* one of them answered
C23_Witness ==
    stage = "technical_questions" /\ Len(questions) = 2 /\ answered_count = 1

\* C24: in every reachable state the stages tech_stack, technical_questions
\* and closing have all six required fields populated, and the stages
\* technical_questions and closing have a non-empty tech_stack
C24_StageImpliesCollected ==
    /\ stage \in {"tech_stack", "technical_questions", "closing"} =>
          /\ candidate_info.full_name # None
          /\ candidate_info.email # None
          /\ candidate_info.phone # None
          /\ candidate_info.years_experience # None
          /\ candidate_info.desired_position # None
          /\ candidate_info.location # None
    /\ stage \in {"technical_questions", "closing"} => candidate_info.tech_stack # << >>

\* the questions stage was reached with the technologies of one utterance and
\* the whole profile collected
C24_Witness ==
    /\ stage = "technical_questions"
    /\ questions = << >>
    /\ Len(candidate_info.tech_stack) = 2
    /\ candidate_info.location # None

\* C25: saving the session changes no profile field, nor the stage, the
\* question list or answered_count, and stores the profile as it is; the
\* prompt of a turn, composed after the turn's extraction, shows full_name,
\* desired_position, location, the stage, the number of questions and
\* answered_count as they were before the turn (extraction touches none of
\* them), and the turn ends as process_ai_response leaves the manager the
\* prompt showed (composing the prompt changed nothing)
C25_CollaboratorsReadOnly ==
    [][/\ Len(save_calls') = Len(save_calls) + 1 =>
             /\ UNCHANGED <<stage, candidate_info, questions, answered_count>>
             /\ save_calls'[Len(save_calls')].candidate_info = candidate_info'
             /\ written'[Len(written) + 1].candidate = candidate_info'
       /\ (TurnTaken /\ RequestSent) =>
             LET prompt == api_requests'[Len(api_requests')][1].content
                 shown == [Manager EXCEPT !.candidate_info = prompt.context.info]
                 after == process_ai_response(shown, last_reply'.text, Said)
             IN  /\ shown.candidate_info.full_name = candidate_info.full_name
                 /\ shown.candidate_info.desired_position = candidate_info.desired_position
                 /\ shown.candidate_info.location = candidate_info.location
                 /\ prompt.context.q_count = Len(questions)
                 /\ prompt.context.answered = answered_count
                 /\ prompt.stage_specific = _stage_instructions(shown)
                 /\ stage' = after.stage
                 /\ candidate_info' = after.candidate_info
                 /\ questions' = after.questions
                 /\ answered_count' = after.answered_count]_vars

\* a session that sent one request, on a turn whose extraction filled the
\* contact fields, and was then saved with both documents written
C25_Witness ==
    /\ conversation_ended
    /\ Len(api_requests) = 1
    /\ Len(save_calls) = 1
    /\ Len(written) = 2
    /\ candidate_info.years_experience # None

=============================================================================
